---- MODULE Spec2Model ----
(***************************************************************************)
(* Model of the user service (src/src/modules/user/service/user.service.ts)*)
(* and of the bearer-token guard (src/src/Guards/AppGuard.ts).             *)
(*                                                                         *)
(* Strings are sequences of one-character strings, so that trim(), split() *)
(* and JavaScript truthiness ("" is falsy) are computed, not assumed.      *)
(* Every await of a repository call is one atomic step of a request; the   *)
(* synchronous code between two awaits belongs to the step that follows.   *)
(***************************************************************************)
EXTENDS Naturals, Sequences, FiniteSets, TLC

VARIABLES
    users,          \* the users table: id -> [email, username, password]
    nextId,         \* the next primary key the store generates
    pc,             \* per request slot: the await the request is parked at
    op,             \* per request slot: the call and its arguments
    loc,            \* per request slot: the handler's local variables
    response,       \* the response or exception the last step sent, if any
    request,        \* per request slot: the HTTP request object (headers, user)
    globalRequest   \* what (global as any).request holds

guardVars   == <<request, globalRequest>>
vars == <<users, nextId, pc, op, loc, response, request, globalRequest>>

----------------------------------------------------------------------------
(* Bounds *)

NumReq == 2         \* request slots (requests in flight at once)
MaxId  == 2         \* primary keys the store may hand out

Requests == 1..NumReq
Ids      == 1..MaxId

----------------------------------------------------------------------------
(* Strings *)

SP == " "
EmptyString == <<>>

Emails    == { <<>>, <<"a">>, <<SP, "a">> }
Usernames == { <<"u">>, <<SP, "u">> }
Passwords == { <<>>, <<"p">> }

Fields == {"email", "username", "password"}

\* JavaScript truthiness of a string: only "" is falsy.
Truthy(s) == s # EmptyString

RECURSIVE TrimStart(_)
TrimStart(s) == IF s # <<>> /\ Head(s) = SP THEN TrimStart(Tail(s)) ELSE s

RECURSIVE TrimEnd(_)
TrimEnd(s) ==
    IF s # <<>> /\ s[Len(s)] = SP THEN TrimEnd(SubSeq(s, 1, Len(s) - 1)) ELSE s

\* String.prototype.trim
Trim(s) == TrimEnd(TrimStart(s))

\* A string with no leading and no trailing white space.
IsTrimmed(s) == s = <<>> \/ (s[1] # SP /\ s[Len(s)] # SP)

----------------------------------------------------------------------------
(* Password hashing *)

HashPrefix == <<"$">>

\* bcrypt.hash(password, salt): the "$2b$10$..." digest. The salt is random;
\* what the model keeps is that a digest carries the prefix and differs from
\* its input.
hashPassword(password) == HashPrefix \o password

IsHashOutput(s) == \E p \in Passwords : s = HashPrefix \o p

----------------------------------------------------------------------------
(* Responses and exceptions *)

Ok(m)                    == [kind |-> "ok", message |-> m]
NotFoundException(m)     == [kind |-> "NotFound", message |-> m]
ConflictException(m)     == [kind |-> "Conflict", message |-> m]
UnauthorizedException    == [kind |-> "Unauthorized", message |-> "Unauthorized"]
\* What TypeORM throws when the database rejects a statement; the service
\* has no handler for it.
QueryFailedError         == [kind |-> "QueryFailedError", message |-> "duplicate key"]
\* No exception: the check passed.
NoResult                 == [kind |-> "none", message |-> ""]

EmailInUse    == "Email da duoc su dung"
UsernameInUse == "Ten dang nhap da duoc su dung"
UserNotFound  == "Khong tim thay nguoi dung"
NoIdentity    == "Khong tim thay thong tin nguoi dung"

----------------------------------------------------------------------------
(* The users table *)

\* userRepository.findOne({ where: { email } }) !== null
findByEmail(store, email) == \E i \in DOMAIN store : store[i].email = email

\* userRepository.findOne({ where: { username } }) !== null
findByUsername(store, username) ==
    \E i \in DOMAIN store : store[i].username = username

\* A table without unique constraints.
NoUniqueConstraint(store, id, rec) == FALSE

\* The table's unique constraints on email and username: would writing rec
\* under key id collide with another row?
UniqueViolation(store, id, rec) ==
    \E j \in DOMAIN store \ {id} :
        store[j].email = rec.email \/ store[j].username = rec.username

\* The table after an accepted save of rec under key id (insert or update).
Put(store, id, rec) ==
    [i \in DOMAIN store \cup {id} |-> IF i = id THEN rec ELSE store[i]]

\* A remove that deletes nothing.
DeleteNothing(store, id) == store

\* userRepository.remove(user)
Delete(store, id) == [i \in DOMAIN store \ {id} |-> store[i]]

----------------------------------------------------------------------------
(* Request objects *)

NoOp == [name |-> "none"]

\* request.user before the guard has attached a payload (undefined).
NoUser == [id |-> 0]

\* A slot with no request object.
NoRequest == [headers |-> <<>>, user |-> NoUser]

\* global.request: undefined, a reference to the live request object of a
\* slot, or an object whose request has already been answered.
Undefined == [ref |-> 0, user |-> NoUser]

----------------------------------------------------------------------------
(* Request slots *)

NoLoc == [none |-> TRUE]

InFlight(r) == pc[r] # "idle"

\* What a step that sends nothing leaves in `response`.
Silent == [kind |-> "none", message |-> "", of |-> NoOp, to |-> 0]

\* The handler returns or throws: the response leaves for the caller (kept
\* here with the call it answers), the handler's locals die, and the slot is
\* free for the next request.
Answer(r, res) ==
    /\ pc' = [pc EXCEPT ![r] = "idle"]
    /\ response' = [kind |-> res.kind, message |-> res.message,
                    of |-> op[r], to |-> r]
    /\ op' = [op EXCEPT ![r] = NoOp]
    /\ loc' = [loc EXCEPT ![r] = NoLoc]

\* The handler goes on to its next await with the locals `locals`.
Await(r, label, locals) ==
    /\ pc' = [pc EXCEPT ![r] = label]
    /\ loc' = [loc EXCEPT ![r] = locals]
    /\ response' = Silent
    /\ UNCHANGED op

\* The same for the user service's handlers, which touch no request object.
Finish(r, res) == Answer(r, res) /\ UNCHANGED guardVars

Goto(r, label, locals) == Await(r, label, locals) /\ UNCHANGED guardVars

CreatesInFlight == Cardinality({q \in Requests : InFlight(q) /\ op[q].name = "create"})

Init ==
    /\ users = <<>>
    /\ nextId = 1
    /\ pc = [r \in Requests |-> "idle"]
    /\ op = [r \in Requests |-> NoOp]
    /\ loc = [r \in Requests |-> NoLoc]
    /\ response = Silent
    /\ request = [r \in Requests |-> NoRequest]
    /\ globalRequest = Undefined

----------------------------------------------------------------------------
(* create *)

CreateDtos == [email : Emails, username : Usernames, password : Passwords]

\* A create that trims the password only.
NormalizeWithoutUsernameTrim(dto) ==
    [dto EXCEPT !.password = Trim(dto.password)]

\* create, lines 50-51: username and password are trimmed in place; email is
\* left as received.
NormalizeCreateDto(dto) ==
    [dto EXCEPT !.username = Trim(dto.username), !.password = Trim(dto.password)]

\* A create request arrives. The store hands out at most MaxId keys.
StartCreate(r, dto) ==
    /\ pc[r] = "idle"
    /\ nextId + CreatesInFlight <= MaxId
    /\ pc' = [pc EXCEPT ![r] = "validateUnique"]
    /\ op' = [op EXCEPT ![r] = [name |-> "create", dto |-> dto]]
    /\ loc' = [loc EXCEPT ![r] = [existingEmail |-> "pending",
                                  existingUsername |-> "pending"]]
    /\ response' = Silent
    /\ UNCHANGED <<users, nextId, guardVars>>

Found(b) == IF b THEN "found" ELSE "null"

\* validateUniqueConstraints, line 163: the findByEmail query of Promise.all
CreateFindByEmail(r) ==
    /\ pc[r] = "validateUnique"
    /\ loc[r].existingEmail = "pending"
    /\ loc' = [loc EXCEPT ![r].existingEmail =
                 Found(findByEmail(users, NormalizeCreateDto(op[r].dto).email))]
    /\ response' = Silent
    /\ UNCHANGED <<users, nextId, pc, op, guardVars>>

\* validateUniqueConstraints, line 164: the findByUsername query of Promise.all
CreateFindByUsername(r) ==
    /\ pc[r] = "validateUnique"
    /\ loc[r].existingUsername = "pending"
    /\ loc' = [loc EXCEPT ![r].existingUsername =
                 Found(findByUsername(users, NormalizeCreateDto(op[r].dto).username))]
    /\ response' = Silent
    /\ UNCHANGED <<users, nextId, pc, op, guardVars>>

\* The two tests of validateUniqueConstraints in the other order.
validateUsernameFirst(existingEmail, existingUsername) ==
    IF existingUsername = "found" THEN ConflictException(UsernameInUse)
    ELSE IF existingEmail = "found" THEN ConflictException(EmailInUse)
    ELSE NoResult

\* validateUniqueConstraints, lines 167-172: the exception thrown once both
\* queries have resolved, if any.
validateUniqueConstraints(existingEmail, existingUsername) ==
    IF existingEmail = "found" THEN ConflictException(EmailInUse)
    ELSE IF existingUsername = "found" THEN ConflictException(UsernameInUse)
    ELSE NoResult

CreateValidated(r) ==
    /\ pc[r] = "validateUnique"
    /\ loc[r].existingEmail # "pending"
    /\ loc[r].existingUsername # "pending"
    /\ LET v == validateUniqueConstraints(loc[r].existingEmail,
                                          loc[r].existingUsername)
       IN IF v.kind = "Conflict" THEN Finish(r, v) ELSE Goto(r, "save", NoLoc)
    /\ UNCHANGED <<users, nextId>>

\* create, lines 57-59: the entity handed to save
CreateEntity(dto) ==
    LET d == NormalizeCreateDto(dto)
    IN [email |-> d.email, username |-> d.username,
        password |-> hashPassword(d.password)]

\* create, line 60: userRepository.save(user) of a new entity
CreateSave(r) ==
    /\ pc[r] = "save"
    /\ op[r].name = "create"
    /\ LET user == CreateEntity(op[r].dto)
       IN IF UniqueViolation(users, nextId, user)
          THEN /\ Finish(r, QueryFailedError)
               /\ UNCHANGED <<users, nextId>>
          ELSE /\ users' = Put(users, nextId, user)
               /\ nextId' = nextId + 1
               /\ Finish(r, Ok("Tao nguoi dung thanh cong"))

----------------------------------------------------------------------------
(* update *)

\* Partial<CreateUserDto>: any subset of the fields, each with a value
FieldValues(f) ==
    IF f = "email" THEN Emails ELSE IF f = "username" THEN Usernames ELSE Passwords

UpdateDatas ==
    { data \in UNION { [S -> Emails \cup Usernames \cup Passwords] : S \in SUBSET Fields } :
        \A f \in DOMAIN data : data[f] \in FieldValues(f) }

Has(data, f) == f \in DOMAIN data

StartUpdate(r, id, data) ==
    /\ pc[r] = "idle"
    /\ pc' = [pc EXCEPT ![r] = "findUser"]
    /\ op' = [op EXCEPT ![r] = [name |-> "update", id |-> id, data |-> data]]
    /\ response' = Silent
    /\ UNCHANGED <<users, nextId, loc, guardVars>>

\* findUserById, lines 149-155, as called by update (119) and remove (135)
FindUserById(r) ==
    /\ pc[r] = "findUser"
    /\ IF op[r].id \in DOMAIN users
       THEN Goto(r, IF op[r].name = "update" THEN "checkEmail" ELSE "remove",
                 [user |-> users[op[r].id]])
       ELSE Finish(r, NotFoundException(UserNotFound))
    /\ UNCHANGED <<users, nextId>>

\* validateUpdateConstraints, line 181 and 188: is the query for field f made?
NeedsCheck(user, data, f) == Has(data, f) /\ Truthy(data[f]) /\ data[f] # user[f]

\* validateUpdateConstraints, lines 181-186
UpdateCheckEmail(r) ==
    /\ pc[r] = "checkEmail"
    /\ IF /\ NeedsCheck(loc[r].user, op[r].data, "email")
          /\ findByEmail(users, op[r].data["email"])
       THEN Finish(r, ConflictException(EmailInUse))
       ELSE Goto(r, "checkUsername", loc[r])
    /\ UNCHANGED <<users, nextId>>

\* validateUpdateConstraints, lines 188-193
UpdateCheckUsername(r) ==
    /\ pc[r] = "checkUsername"
    /\ IF /\ NeedsCheck(loc[r].user, op[r].data, "username")
          /\ findByUsername(users, op[r].data["username"])
       THEN Finish(r, ConflictException(UsernameInUse))
       ELSE Goto(r, "save", loc[r])
    /\ UNCHANGED <<users, nextId>>

\* updateUserData, lines 203-205: the password is hashed only when truthy
HashedUpdateData(data) ==
    IF Has(data, "password") /\ Truthy(data["password"])
    THEN [data EXCEPT !["password"] = hashPassword(data["password"])]
    ELSE data

\* Object.assign(user, updateData), line 207
ObjectAssign(user, data) ==
    [f \in DOMAIN user |-> IF Has(data, f) THEN data[f] ELSE user[f]]

\* An updateUserData that hashes the loaded password again on every update.
updateUserDataRehashing(user, data) ==
    ObjectAssign([user EXCEPT !.password = hashPassword(@)], HashedUpdateData(data))

\* updateUserData, lines 202-209: the entity handed to save
updateUserData(user, data) == ObjectAssign(user, HashedUpdateData(data))

\* updateUserData, line 208: userRepository.save(user) of a loaded entity;
\* save inserts the row again when it is no longer in the table.
UpdateSave(r) ==
    /\ pc[r] = "save"
    /\ op[r].name = "update"
    /\ LET user == updateUserData(loc[r].user, op[r].data)
       IN IF UniqueViolation(users, op[r].id, user)
          THEN /\ Finish(r, QueryFailedError)
               /\ UNCHANGED users
          ELSE /\ users' = Put(users, op[r].id, user)
               /\ Finish(r, Ok("Cap nhat thong tin nguoi dung thanh cong"))
    /\ UNCHANGED nextId

----------------------------------------------------------------------------
(* remove *)

StartRemove(r, id) ==
    /\ pc[r] = "idle"
    /\ pc' = [pc EXCEPT ![r] = "findUser"]
    /\ op' = [op EXCEPT ![r] = [name |-> "remove", id |-> id]]
    /\ response' = Silent
    /\ UNCHANGED <<users, nextId, loc, guardVars>>

\* remove, lines 136-141
RemoveUser(r) ==
    /\ pc[r] = "remove"
    /\ users' = Delete(users, op[r].id)
    /\ Finish(r, Ok("Xoa nguoi dung thanh cong"))
    /\ UNCHANGED nextId

----------------------------------------------------------------------------
(* AuthGuard *)

Bearer == <<"B", "e", "a", "r", "e", "r">>

\* Tokens. "1" and "2" are signed with JWT_SECRET and unexpired, carrying the
\* identities 1 and 2; "x" is signed with another secret, "e" is expired and
\* "m" is no JWT at all.
GoodTokens == { <<"1">>, <<"2">> }
BadTokens  == { <<"x">>, <<"e">>, <<"m">> }

\* jwtService.verifyAsync(token, { secret: process.env.JWT_SECRET }) resolves
Verifies(token) == token \in GoodTokens

\* ... with this payload
Payload(token) == [id |-> IF token = <<"1">> THEN 1 ELSE 2]

\* The values of the Authorization header
AuthorizationValues ==
    { <<>>,                                   \* ""
      Bearer,                                 \* "Bearer"
      Bearer \o <<SP>>,                       \* "Bearer "
      Bearer \o <<SP, "1">>,                  \* "Bearer 1"
      Bearer \o <<SP, "2">>,
      Bearer \o <<SP, "x">>,
      Bearer \o <<SP, "e">>,
      Bearer \o <<SP, "m">>,
      Bearer \o <<SP, SP, "1">>,              \* "Bearer  1"
      Bearer \o <<SP, "1", SP, "z">>,         \* "Bearer 1 z"
      Bearer \o <<SP, "x", SP, "1">>,         \* "Bearer x 1"
      <<"b", "e", "a", "r", "e", "r", SP, "1">>,
      <<"B", "a", "s", "i", "c", SP, "1">>,
      <<SP>> \o Bearer \o <<SP, "1">>,        \* " Bearer 1"
      <<"1">> }

\* request.headers: with or without an authorization entry
HeaderSets ==
    { <<>> } \cup { [h \in {"authorization"} |-> v] : v \in AuthorizationValues }

RECURSIVE IndexOfSpace(_, _)
IndexOfSpace(s, i) ==
    IF i > Len(s) THEN 0 ELSE IF s[i] = SP THEN i ELSE IndexOfSpace(s, i + 1)

\* str.split(' ')
RECURSIVE Split(_)
Split(s) ==
    LET i == IndexOfSpace(s, 1)
    IN IF i = 0 THEN << s >>
       ELSE << SubSeq(s, 1, i - 1) >> \o Split(SubSeq(s, i + 1, Len(s)))

\* An extractTokenFromHeader that does not look at the scheme.
extractTokenOfAnyScheme(headers) ==
    IF "authorization" \notin DOMAIN headers \/ ~Truthy(headers["authorization"])
    THEN [throw |-> TRUE, token |-> EmptyString]
    ELSE LET parts == Split(headers["authorization"])
         IN [throw |-> FALSE,
             token |-> IF Len(parts) >= 2 THEN parts[2] ELSE EmptyString]

\* extractTokenFromHeader, lines 34-41. The result is "throw" (line 37), or
\* the token; undefined is the empty string here, which line 19 treats alike.
extractTokenFromHeader(headers) ==
    IF "authorization" \notin DOMAIN headers \/ ~Truthy(headers["authorization"])
    THEN [throw |-> TRUE, token |-> EmptyString]
    ELSE LET parts == Split(headers["authorization"])
             type  == parts[1]
             token == IF Len(parts) >= 2 THEN parts[2] ELSE EmptyString
         IN [throw |-> FALSE,
             token |-> IF type = Bearer THEN token ELSE EmptyString]

\* global.request as getMyInfo dereferences it
GlobalUser ==
    IF globalRequest.ref # 0 THEN request[globalRequest.ref].user
    ELSE globalRequest.user

\* When the request of slot r has been answered, a global reference to its
\* object keeps the object, with the user it carries, alive.
Detach(r) ==
    IF globalRequest.ref = r
    THEN [ref |-> 0, user |-> request[r].user]
    ELSE globalRequest

GuardFinish(r, res) ==
    /\ Answer(r, res)
    /\ request' = [request EXCEPT ![r] = NoRequest]
    /\ globalRequest' = Detach(r)
    /\ UNCHANGED <<users, nextId>>

\* A request for the current user's profile arrives. No file of src/ assigns
\* global.request; `publish` is whether code outside it stores the arriving
\* request there.
Arrive(r, headers, publish) ==
    /\ pc[r] = "idle"
    /\ pc' = [pc EXCEPT ![r] = "canActivate"]
    /\ op' = [op EXCEPT ![r] = [name |-> "getMyInfo", headers |-> headers]]
    /\ request' = [request EXCEPT ![r] = [headers |-> headers, user |-> NoUser]]
    /\ globalRequest' = IF publish THEN [ref |-> r, user |-> NoUser] ELSE globalRequest
    /\ response' = Silent
    /\ UNCHANGED <<users, nextId, loc>>

\* canActivate, lines 15-24: up to the await of verifyAsync
CanActivate(r) ==
    /\ pc[r] = "canActivate"
    /\ LET e == extractTokenFromHeader(request[r].headers)
       IN IF e.throw \/ ~Truthy(e.token)
          THEN GuardFinish(r, UnauthorizedException)
          ELSE /\ Await(r, "verifyAsync", [token |-> e.token])
               /\ UNCHANGED <<users, nextId, guardVars>>

\* canActivate, lines 24-31: verifyAsync settles
VerifyAsync(r) ==
    /\ pc[r] = "verifyAsync"
    /\ IF Verifies(loc[r].token)
       THEN /\ request' = [request EXCEPT ![r].user = Payload(loc[r].token)]
            /\ Await(r, "getMyInfo", NoLoc)
            /\ UNCHANGED <<users, nextId, globalRequest>>
       ELSE GuardFinish(r, UnauthorizedException)

\* getMyInfo, lines 28-36: up to the await of findUserById
GetMyInfo(r) ==
    /\ pc[r] = "getMyInfo"
    /\ LET userId == GlobalUser.id
       IN IF userId = 0
          THEN GuardFinish(r, NotFoundException(NoIdentity))
          ELSE /\ Await(r, "findMe", [userId |-> userId])
               /\ UNCHANGED <<users, nextId, guardVars>>

\* getMyInfo, lines 36-40: findUserById(userId) and the response
GetMyInfoFind(r) ==
    /\ pc[r] = "findMe"
    /\ IF loc[r].userId \in DOMAIN users
       THEN GuardFinish(r, Ok("Lay thong tin ca nhan thanh cong"))
       ELSE GuardFinish(r, NotFoundException(UserNotFound))

----------------------------------------------------------------------------
(* Specifications *)

Step(r) ==
    \/ CreateFindByEmail(r)
    \/ CreateFindByUsername(r)
    \/ CreateValidated(r)
    \/ CreateSave(r)
    \/ FindUserById(r)
    \/ UpdateCheckEmail(r)
    \/ UpdateCheckUsername(r)
    \/ UpdateSave(r)
    \/ RemoveUser(r)

Start(r) ==
    \/ \E dto \in CreateDtos : StartCreate(r, dto)
    \/ \E id \in Ids, data \in UpdateDatas : StartUpdate(r, id, data)
    \/ \E id \in Ids : StartRemove(r, id)

\* The requests of the interleaved runs: the password, which no uniqueness
\* check reads, is held fixed.
ConcCreateDtos == { d \in CreateDtos : d.password = <<"p">> }
ConcUpdateDatas == { d \in UpdateDatas : "password" \notin DOMAIN d }

ConcStart(r) ==
    \/ \E dto \in ConcCreateDtos : StartCreate(r, dto)
    \/ \E id \in Ids, data \in ConcUpdateDatas : StartUpdate(r, id, data)
    \/ \E id \in Ids : StartRemove(r, id)

\* Requests arrive at any time and their steps interleave freely.
Next == \E r \in Requests : ConcStart(r) \/ Step(r)

Spec == Init /\ [][Next]_vars

\* One request at a time: a request arrives only when no other is in the
\* service.
AllIdle == \A q \in Requests : pc[q] = "idle"

SeqNext == \E r \in Requests : (AllIdle /\ Start(r)) \/ Step(r)

SpecSeq == Init /\ [][SeqNext]_vars

\* The guarded route. The table holds one user, as after
\* create({email: "a", username: "u", password: "p"}).
GuardInit ==
    /\ users = Put(<<>>, 1, CreateEntity([email |-> <<"a">>, username |-> <<"u">>,
                                          password |-> <<"p">>]))
    /\ nextId = 2
    /\ pc = [r \in Requests |-> "idle"]
    /\ op = [r \in Requests |-> NoOp]
    /\ loc = [r \in Requests |-> NoLoc]
    /\ response = Silent
    /\ request = [r \in Requests |-> NoRequest]
    /\ globalRequest = Undefined

GuardStep(r) ==
    \/ \E headers \in HeaderSets, publish \in BOOLEAN : Arrive(r, headers, publish)
    \/ CanActivate(r)
    \/ VerifyAsync(r)
    \/ GetMyInfo(r)
    \/ GetMyInfoFind(r)

GuardNext == \E r \in Requests : GuardStep(r)

SpecGuard == GuardInit /\ [][GuardNext]_vars

----------------------------------------------------------------------------
(* Vocabulary of the properties *)

\* Slot r completes its request in this step.
Completes(r) == pc[r] # "idle" /\ pc'[r] = "idle"

\* t is raw without its leading and trailing spaces, said without Trim.
IsTrimOf(raw, t) ==
    /\ IsTrimmed(t)
    /\ \E i, j \in 0..Len(raw) :
        /\ i + j <= Len(raw)
        /\ t = SubSeq(raw, i + 1, Len(raw) - j)
        /\ \A k \in 1..Len(raw) : (k <= i \/ k > Len(raw) - j) => raw[k] = SP

EmailHeld(email)       == \E i \in DOMAIN users : users[i].email = email
UsernameHeld(username) == \E i \in DOMAIN users : users[i].username = username

----------------------------------------------------------------------------
(* C1 *)

\* C1: in every reachable state of the users table, under any interleaving
\* of create, update and remove requests, no two stored records share an
\* email and no two share a username.
C1_EmailAndUsernameUnique ==
    \A i, j \in DOMAIN users :
        i # j => /\ users[i].email # users[j].email
                 /\ users[i].username # users[j].username

\* Two records are stored and the table has just refused a write that the
\* service's own checks had let through.
C1_Witness ==
    /\ Cardinality(DOMAIN users) = 2
    /\ response.kind = "QueryFailedError"

----------------------------------------------------------------------------
(* C2 *)

\* C2: a create request whose write the table's unique constraint rejects
\* ends with the Conflict error of the pre-check and with no other kind of
\* failure; that is, a create that fails, fails with Conflict.
C2_RejectedCreateEndsInConflict ==
    (response.of.name = "create" /\ response.kind # "ok")
        => response.kind = "Conflict"

----------------------------------------------------------------------------
(* C3 *)

\* C3: the password of every stored record is an output of the hash
\* function and is no raw password value of a request, the empty string
\* included.
C3_StoredPasswordIsHashed ==
    \A i \in DOMAIN users :
        /\ IsHashOutput(users[i].password)
        /\ users[i].password \notin Passwords

----------------------------------------------------------------------------
(* C4 *)

\* The value starts with "Bearer", one space and a token that verifies, and
\* either ends there or goes on with a space.
CarriesGoodToken(v) ==
    \E t \in GoodTokens :
        LET w == Bearer \o <<SP>> \o t
        IN /\ Len(v) >= Len(w)
           /\ SubSeq(v, 1, Len(w)) = w
           /\ (Len(v) > Len(w) => v[Len(w) + 1] = SP)

\* The header is absent, is not of the form "Bearer <token>", or its token
\* fails verification.
Inadmissible(headers) ==
    \/ "authorization" \notin DOMAIN headers
    \/ ~CarriesGoodToken(headers["authorization"])

----------------------------------------------------------------------------
(* C5 *)

\* C5: for a request the guard admitted, getMyInfo reads the identity the
\* guard attached to that very request: it has an identity to read, and the
\* identity is not that of another request.
C5_ReadsOwnIdentity ==
    /\ \A r \in Requests :
          pc[r] = "findMe" => loc[r].userId = request[r].user.id
    /\ ~(response.of.name = "getMyInfo" /\ response.kind = "NotFound"
           /\ response.message = NoIdentity)

----------------------------------------------------------------------------
(* C6 *)

----------------------------------------------------------------------------
(* C7 *)

\* C7: an update of an existing user that sets email (or username) to a
\* value held by a different stored user ends with Conflict and leaves the
\* table unchanged.
C7_UpdateToHeldValueConflicts ==
    [][ \A r \in Requests :
          (op[r].name = "update" /\ pc[r] \notin {"idle", "findUser"} /\ Completes(r))
          => \A f \in {"email", "username"} :
                (Has(op[r].data, f)
                   /\ \E j \in DOMAIN users \ {op[r].id} : users[j][f] = op[r].data[f])
                => /\ response'.kind = "Conflict"
                   /\ users' = users ]_vars

----------------------------------------------------------------------------
(* C8 *)

\* C8: a remove of an id with no stored record ends with NotFound and
\* leaves the table unchanged; a remove of a stored id deletes that record
\* and no other; and an id once removed stays absent, so that a second
\* remove of it ends with NotFound.
C8_Remove ==
    [][ /\ \A r \in Requests :
             (op[r].name = "remove" /\ Completes(r))
             => IF op[r].id \in DOMAIN users
                THEN /\ response'.kind = "ok"
                     /\ DOMAIN users' = DOMAIN users \ {op[r].id}
                     /\ \A j \in DOMAIN users' : users'[j] = users[j]
                ELSE /\ response'.kind = "NotFound"
                     /\ response'.message = UserNotFound
                     /\ users' = users
        /\ \A i \in 1..(nextId - 1) :
             i \notin DOMAIN users => i \notin DOMAIN users' ]_vars

\* A remove of an id that an earlier remove had deleted has just ended with
\* NotFound.
C8_Witness ==
    /\ response.kind = "NotFound"
    /\ response.of.name = "remove"
    /\ response.of.id < nextId
    /\ users # <<>>

----------------------------------------------------------------------------
(* C9 *)

\* C9 as stated: every email and every username that create stores is in
\* trimmed form.
C9_CreateStoresTrimmedEmailAndUsername ==
    [][ \A r \in Requests :
          (op[r].name = "create" /\ Completes(r) /\ response'.kind = "ok")
          => /\ IsTrimmed(users'[nextId].email)
             /\ IsTrimmed(users'[nextId].username) ]_vars

\* C9 as amended: create trims the username, not the email. A create whose
\* username, once trimmed, is a stored username ends with Conflict; the
\* username create stores is the trimmed one; the email is stored as given.
C9_CreateTrimsUsername ==
    [][ \A r \in Requests :
          (op[r].name = "create" /\ Completes(r))
          => /\ (\E i \in DOMAIN users : IsTrimOf(op[r].dto.username, users[i].username))
                  => response'.kind = "Conflict"
             /\ response'.kind = "ok"
                  => /\ IsTrimOf(op[r].dto.username, users'[nextId].username)
                     /\ users'[nextId].email = op[r].dto.email ]_vars

\* A create with the username " u" has just been refused because "u" is
\* stored.
C9_Witness ==
    /\ response.kind = "Conflict"
    /\ response.message = UsernameInUse
    /\ response.of.name = "create"
    /\ response.of.dto.username = <<SP, "u">>
    /\ UsernameHeld(<<"u">>)
    /\ ~UsernameHeld(<<SP, "u">>)

----------------------------------------------------------------------------
(* C10 *)

\* C10: a successful update changes, on the target record, only the fields
\* the request supplies: the others, the password among them, keep their
\* values, and no other record changes.
C10_UpdateFrame ==
    [][ \A r \in Requests :
          (op[r].name = "update" /\ Completes(r) /\ response'.kind = "ok")
          => /\ DOMAIN users' = DOMAIN users
             /\ \A j \in DOMAIN users : j # op[r].id => users'[j] = users[j]
             /\ \A f \in Fields \ DOMAIN op[r].data :
                   users'[op[r].id][f] = users[op[r].id][f] ]_vars

\* An update that supplies only the email has just succeeded while another
\* record is stored.
C10_Witness ==
    /\ response.kind = "ok"
    /\ response.of.name = "update"
    /\ DOMAIN response.of.data = {"email"}
    /\ Cardinality(DOMAIN users) = 2
    /\ users[response.of.id].email = response.of.data["email"]

====
